---- MODULE Spec2Model ----
(***************************************************************************)
(* State-machine model of class SDCompare (src/SDclass.py): construction   *)
(* in five initialization steps, __call__, init_COCO_data's split of the   *)
(* image ids and get_stats.                                                *)
(*                                                                         *)
(* External libraries (diffusers, tgate, DeepCache, clip, pycocotools,     *)
(* pytorch_fid, PIL) are modelled by what the class relies on: which       *)
(* entry points a pipeline object has, which files a directory holds.      *)
(*                                                                         *)
(* init_COCO_data looks up os.join.  The standard library's os module has  *)
(* no such attribute (os.path.join is the function), so the lookup raises  *)
(* AttributeError there; os_has_join = TRUE stands for an interpreter      *)
(* whose os module has been given one, the only environment in which an    *)
(* instance comes to exist and its methods can be called.                  *)
(***************************************************************************)
EXTENDS Integers, Sequences, FiniteSets, TLC

\* ---------------------------------------------------------------- bounds
\* Largest number of image ids the annotation file lists.
MaxIds == 3
\* Largest N_val / N_test passed to init_COCO_data by a caller.
MaxN == 3

\* ------------------------------------------------------- program constants
N_val_default == 512
N_test_default == 1024
DefaultInferenceSteps == 15

\* ------------------------------------------------------------ input sets
\* model: the two supported values and one unsupported.
Models == {"SD", "SDXL", "SD3"}
\* cache_model: the three documented values and one that names no adapter.
DocumentedCacheModels == {"tgate", "deepcache", "both"}
CacheModels == DocumentedCacheModels \cup {"none"}
SupportedModels == {"SD", "SDXL"}
Prompts == {"", "a cat"}
KwargKeys == {"num_inference_steps", "gate_step"}
KwargVals == {2}
\* **kwargs of __call__: `prompt` is a named parameter, so Python never
\* puts it into kwargs.
KwargsSet == UNION {[S -> KwargVals] : S \in SUBSET KwargKeys}
NoKwargs == [k \in {} |-> 0]
Splits == {"val", "test"}

VARIABLES
  os_has_join,      \* whether attribute `join` resolves on module os
  coco_ids,         \* COCO.getImgIds(): the ids of the annotation file
  model,            \* self.model
  cache_model,      \* self.cache_model
  attrs,            \* names of the instance attributes assigned so far
  pipe,             \* self.pipe
  inference_steps,  \* self.inference_steps (0: not assigned)
  img_ids,          \* self.img_ids
  coco_args,        \* N_val, N_test of the latest init_COCO_data call
  fs,               \* image files per directory
  pc,               \* position of __init__
  ran,              \* initialization steps __init__ has completed, in order
  exc,              \* exception that left __init__
  call,             \* the most recent __call__
  gs                \* the activation of get_stats

vars == <<os_has_join, coco_ids, model, cache_model, attrs, pipe,
          inference_steps, img_ids, coco_args, fs, pc, ran, exc, call, gs>>

\* ------------------------------------------------------------- helpers
Min(a, b) == IF a < b THEN a ELSE b
Max(a, b) == IF a > b THEN a ELSE b
Range(s) == {s[i] : i \in 1..Len(s)}

\* Python s[0:k], k >= 0.
SliceHead(s, k) == SubSeq(s, 1, Min(k, Len(s)))

\* Python s[-k:], k >= 0.  -0 is 0, so s[-0:] is s[0:], the whole list.
SliceTail(s, k) ==
  IF k = 0 \/ k >= Len(s) THEN s ELSE SubSeq(s, Len(s) - k + 1, Len(s))

\* random.seed(42); random.shuffle(list) on a list of n elements: the
\* positions CPython's Mersenne Twister produces (element at result index i
\* comes from source index Perm42(n)[i]).
Perm42(n) ==
  CASE n = 0 -> << >>
    [] n = 1 -> <<1>>
    [] n = 2 -> <<2, 1>>
    [] n = 3 -> <<2, 1, 3>>
    [] n = 4 -> <<3, 2, 4, 1>>
    [] n = 5 -> <<4, 2, 3, 5, 1>>
    [] n = 6 -> <<4, 2, 3, 5, 1, 6>>

Shuffle42(s) == [i \in 1..Len(s) |-> s[Perm42(Len(s))[i]]]

\* The five initialization steps in the order __init__ calls them.
InitOrder == <<"init_pipe", "init_scheduler", "init_cacher",
               "init_COCO_data", "init_CLIP_model">>

NoPipe == [kind |-> "none", scheduler |-> "none", entries |-> {},
           adapters |-> {}]
NoCall == [made |-> FALSE, prompt |-> "", kwargs |-> NoKwargs,
           entry |-> "none", params |-> NoKwargs, result |-> "none"]
NoCOCOArgs == [called |-> FALSE, N_val |-> 0, N_test |-> 0]
NoFid == [made |-> FALSE, real_dir |-> "none", gen_dir |-> "none",
          gen_files |-> {}]
\* get_stats before its first call: out is "idle", then "running" while an
\* activation is under way, "returned" or "raised" once it has ended; pc
\* is the part of the body the activation is in, or ended in.
IdleStats == [pc |-> "start", val_test |-> "val", delete |-> FALSE, n |-> 0,
              stats |-> {}, out |-> "idle", fid |-> NoFid]

\* ---------------------------------------------------------------- Init
\* The state when __init__ has stored its arguments (lines 34-40) and is
\* about to call init_pipe.
Init ==
  /\ os_has_join \in BOOLEAN
  /\ coco_ids \in {[i \in 1..n |-> i] : n \in 0..MaxIds}
  /\ model \in Models
  /\ cache_model \in CacheModels
  /\ attrs = {"model", "cache_model", "scheduler_dict", "clip_model",
              "data_path"}
  /\ pipe = NoPipe
  /\ inference_steps = 0
  /\ img_ids = [val |-> << >>, test |-> << >>]
  /\ coco_args = NoCOCOArgs
  /\ fs = [coco_imgs |-> {}, coco_FID |-> {}, gen |-> {}, gen_FID |-> {}]
  /\ pc = "init_pipe"
  /\ ran = << >>
  /\ exc = "none"
  /\ call = NoCall
  /\ gs = IdleStats

\* An exception leaves __init__: no instance is handed to the caller.
Raise(e) ==
  /\ pc' = "raised"
  /\ exc' = e

\* ------------------------------------------------------------ init_pipe
CtorInitPipe ==
  /\ pc = "init_pipe"
  /\ IF model \in SupportedModels
       THEN /\ pipe' = [kind |-> model, scheduler |-> "default",
                        entries |-> {"__call__"}, adapters |-> {}]
            /\ attrs' = attrs \cup {"pipe"}
            /\ pc' = "init_scheduler"
            /\ ran' = Append(ran, "init_pipe")
            /\ exc' = exc
       ELSE \* neither branch binds the local `pipe` read on line 61
            /\ Raise("UnboundLocalError")
            /\ UNCHANGED <<pipe, attrs, ran>>
  /\ UNCHANGED <<os_has_join, coco_ids, model, cache_model, inference_steps,
                 img_ids, coco_args, fs, call, gs>>

\* -------------------------------------------------------- init_scheduler
CtorInitScheduler ==
  /\ pc = "init_scheduler"
  /\ pipe' = [pipe EXCEPT !.scheduler = "swapped"]
  /\ pc' = "init_cacher"
  /\ ran' = Append(ran, "init_scheduler")
  /\ UNCHANGED <<os_has_join, coco_ids, model, cache_model, attrs,
                 inference_steps, img_ids, coco_args, fs, exc, call, gs>>

\* ----------------------------------------------------------- init_cacher
\* TgateSDLoader / TgateSDXLLoader give the pipeline a `tgate` entry point;
\* DeepCacheSDHelper.enable() hooks the pipeline's own call.
Cacher(p, m, cm) ==
  LET tg == IF cm \in {"tgate", "both"} /\ m \in SupportedModels
              THEN [p EXCEPT !.entries = @ \cup {"tgate"},
                             !.adapters = @ \cup {"tgate"}]
              ELSE p
  IN  IF cm \in {"deepcache", "both"}
        THEN [tg EXCEPT !.adapters = @ \cup {"deepcache"}]
        ELSE tg

CtorInitCacher ==
  /\ pc = "init_cacher"
  /\ pipe' = Cacher(pipe, model, cache_model)
  /\ pc' = "init_COCO_data"
  /\ ran' = Append(ran, "init_cacher")
  /\ UNCHANGED <<os_has_join, coco_ids, model, cache_model, attrs,
                 inference_steps, img_ids, coco_args, fs, exc, call, gs>>

\* -------------------------------------------------------- init_COCO_data
\* Lines 129-131: shuffle with seed 42, then val = ids[0:N_val] and
\* test = ids[-N_test:].
COCOSplit(ids, N_val, N_test) ==
  LET shuffled == Shuffle42(ids)
  IN  [val |-> SliceHead(shuffled, N_val), test |-> SliceTail(shuffled, N_test)]

\* Lines 133-152: every id of val + test is downloaded into path_coco_imgs
\* and saved resized into path_coco_FID.
COCOFiles(files, split) ==
  LET wanted == Range(split.val) \cup Range(split.test)
  IN  [files EXCEPT !.coco_imgs = @ \cup wanted, !.coco_FID = @ \cup wanted]

\* Attributes init_COCO_data assigns (lines 125, 126, 131, 135);
\* path_coco_FID stays a local name.
COCOAttrs == {"coco_imgs", "coco_prompts", "img_ids", "path_coco_imgs"}

\* __init__ calls init_COCO_data() with the default N_val and N_test.
\* Line 114 evaluates os.join(...) before anything is assigned.
CtorInitCOCOData ==
  /\ pc = "init_COCO_data"
  /\ IF os_has_join
       THEN LET split == COCOSplit(coco_ids, N_val_default, N_test_default)
            IN  /\ img_ids' = split
                /\ fs' = COCOFiles(fs, split)
                /\ coco_args' = [called |-> TRUE, N_val |-> N_val_default,
                                 N_test |-> N_test_default]
                /\ attrs' = attrs \cup COCOAttrs
                /\ pc' = "init_CLIP_model"
                /\ ran' = Append(ran, "init_COCO_data")
                /\ exc' = exc
       ELSE /\ Raise("AttributeError")
            /\ UNCHANGED <<img_ids, coco_args, fs, attrs, ran>>
  /\ UNCHANGED <<os_has_join, coco_ids, model, cache_model, pipe,
                 inference_steps, call, gs>>

\* ------------------------------------------------------- init_CLIP_model
CtorInitCLIPModel ==
  /\ pc = "init_CLIP_model"
  /\ attrs' = attrs \cup {"clip_model", "clip_preprocess"}
  /\ pc' = "set_inference_steps"
  /\ ran' = Append(ran, "init_CLIP_model")
  /\ UNCHANGED <<os_has_join, coco_ids, model, cache_model, pipe,
                 inference_steps, img_ids, coco_args, fs, exc, call, gs>>

\* Line 48, the last statement of __init__.
CtorFinish ==
  /\ pc = "set_inference_steps"
  /\ inference_steps' = DefaultInferenceSteps
  /\ attrs' = attrs \cup {"inference_steps"}
  /\ pc' = "done"
  /\ UNCHANGED <<os_has_join, coco_ids, model, cache_model, pipe, img_ids,
                 coco_args, fs, ran, exc, call, gs>>

\* An instance exists and no method of it is running.
Usable == pc = "done" /\ gs.out # "running"

\* init_COCO_data(N_val, N_test) called on the constructed instance (an
\* instance exists only where os.join resolved during construction).
InitCOCOData(N_val, N_test) ==
  /\ Usable
  /\ os_has_join
  /\ LET split == COCOSplit(coco_ids, N_val, N_test)
     IN  /\ img_ids' = split
         /\ fs' = COCOFiles(fs, split)
  /\ coco_args' = [called |-> TRUE, N_val |-> N_val, N_test |-> N_test]
  /\ attrs' = attrs \cup COCOAttrs
  /\ UNCHANGED <<os_has_join, coco_ids, model, cache_model, pipe,
                 inference_steps, pc, ran, exc, call, gs>>

\* -------------------------------------------------------------- __call__
\* dict.update: the keys of `new` replace those of `d`.
Update(d, new) ==
  [k \in DOMAIN d \cup DOMAIN new |-> IF k \in DOMAIN new THEN new[k] ELSE d[k]]

\* max(num_inference_steps // 2.5, 1); n // 2.5 is floor(2n / 5).
GateStep(n) == Max((2 * n) \div 5, 1)

\* CallEntry with the plain call also taken for "both".
CallEntry_both(cm) ==
  IF cm \in {"deepcache", "both"} THEN "__call__" ELSE "tgate"

\* The attribute of self.pipe that __call__ invokes.
CallEntry(cm) == IF cm = "deepcache" THEN "__call__" ELSE "tgate"

\* The keyword arguments __call__ passes on (lines 162-172).
CallParams(cm, steps, prompt, kwargs) ==
  LET defaults == [prompt |-> prompt, num_inference_steps |-> steps]
  IN  IF cm = "deepcache"
        THEN Update(defaults, kwargs)
        ELSE Update(Update(defaults, [gate_step |-> GateStep(steps)]), kwargs)

\* self.pipe.tgate raises AttributeError on a pipeline no Tgate loader
\* has wrapped.
CallOutcome(p, cm, steps, prompt, kwargs) ==
  [made |-> TRUE,
   prompt |-> prompt,
   kwargs |-> kwargs,
   entry |-> CallEntry(cm),
   params |-> CallParams(cm, steps, prompt, kwargs),
   result |-> IF CallEntry(cm) \in p.entries THEN "image" ELSE "AttributeError"]

Call(prompt, kwargs) ==
  /\ Usable
  /\ call' = CallOutcome(pipe, cache_model, inference_steps, prompt, kwargs)
  /\ UNCHANGED <<os_has_join, coco_ids, model, cache_model, attrs, pipe,
                 inference_steps, img_ids, coco_args, fs, pc, ran, exc, gs>>

\* ------------------------------------------------------------- get_stats
\* Instance attributes get_stats reads and does not assign itself
\* (those read by __call__ and get_clip_score, which it calls, included).
GetStatsReads ==
  {"model", "cache_model", "scheduler_dict", "inference_steps",  \* line 216
   "img_ids",                                                    \* line 223
   "coco_prompts",                                               \* line 230
   "pipe",                                                       \* line 234
   "path_coco_imgs",                                             \* line 235
   "clip_model", "clip_preprocess",                              \* line 237
   "path_coco_FID"}                                              \* line 257

\* The directory the FID loop saves its images into (line 254).
FIDLoopDir == "path_gen_FID"

\* The two directories named in the call of calculate_fid_given_paths
\* (line 257): [self.path_coco_FID, path_gen].
FIDPaths == <<"path_coco_FID", "path_gen">>

\* Image files directly inside a directory (pytorch_fid globs the
\* directory itself, not its subdirectories).
FilesIn(files, dir) ==
  CASE dir = "path_gen" -> files.gen
    [] dir = "path_gen_FID" -> files.gen_FID
    [] dir = "path_coco_imgs" -> files.coco_imgs
    [] dir = "path_coco_FID" -> files.coco_FID

GetStatsRaise == [gs EXCEPT !.out = "raised"]

\* Lines 215-223 (path_gen is None: the default directory).
GetStatsStart(val_test, delete_gen_after) ==
  /\ Usable
  /\ attrs' = attrs \cup {"path_gen", "path_gen_FID"}
  /\ gs' = [pc |-> "clip", val_test |-> val_test, delete |-> delete_gen_after,
            n |-> 0, stats |-> {}, out |-> "running", fid |-> NoFid]
  /\ UNCHANGED <<os_has_join, coco_ids, model, cache_model, pipe,
                 inference_steps, img_ids, coco_args, fs, pc, ran, exc, call>>

\* Lines 226-244: one iteration of the CLIP loop, or, past the last id,
\* the two CLIP statistics.
GetStatsCLIP ==
  /\ pc = "done" /\ gs.out = "running" /\ gs.pc = "clip"
  /\ IF gs.n < Len(img_ids[gs.val_test])
       THEN LET o == CallOutcome(pipe, cache_model, inference_steps,
                                 "a cat", NoKwargs)
            IN  /\ call' = o
                /\ gs' = IF o.result = "image"
                           THEN [gs EXCEPT !.n = @ + 1]
                           ELSE GetStatsRaise
       ELSE /\ gs' = [gs EXCEPT !.stats = @ \cup {"CLIP_mean", "CLIP_diff"},
                                !.pc = "fid_loop", !.n = 0]
            /\ call' = call
  /\ UNCHANGED <<os_has_join, coco_ids, model, cache_model, attrs, pipe,
                 inference_steps, img_ids, coco_args, fs, pc, ran, exc>>

\* Lines 250-254: one iteration of the FID loop: generate from the empty
\* prompt and save as <path_gen_FID>/<img_id>.png.
GetStatsFIDLoop ==
  /\ pc = "done" /\ gs.out = "running" /\ gs.pc = "fid_loop"
  /\ IF gs.n < Len(img_ids[gs.val_test])
       THEN LET o == CallOutcome(pipe, cache_model, inference_steps,
                                 "", NoKwargs)
            IN  /\ call' = o
                /\ IF o.result = "image"
                     THEN /\ gs' = [gs EXCEPT !.n = @ + 1]
                          /\ fs' = [fs EXCEPT !.gen_FID =
                                      @ \cup {img_ids[gs.val_test][gs.n + 1]}]
                     ELSE /\ gs' = GetStatsRaise
                          /\ fs' = fs
       ELSE /\ gs' = [gs EXCEPT !.pc = "fid", !.n = 0]
            /\ UNCHANGED <<call, fs>>
  /\ UNCHANGED <<os_has_join, coco_ids, model, cache_model, attrs, pipe,
                 inference_steps, img_ids, coco_args, pc, ran, exc>>

\* Lines 257-264: the argument list reads self.path_coco_FID first; once
\* FID is computed the generated images are removed when delete_gen_after
\* is set, and the statistics are returned.
GetStatsFID ==
  /\ pc = "done" /\ gs.out = "running" /\ gs.pc = "fid"
  /\ IF "path_coco_FID" \in attrs
       THEN /\ gs' = [gs EXCEPT !.fid = [made |-> TRUE,
                                         real_dir |-> FIDPaths[1],
                                         gen_dir |-> FIDPaths[2],
                                         gen_files |-> FilesIn(fs, FIDPaths[2])],
                                !.stats = @ \cup {"FID"},
                                !.pc = "end",
                                !.out = "returned"]
            /\ fs' = IF gs.delete THEN [fs EXCEPT !.gen_FID = {}] ELSE fs
       ELSE /\ gs' = GetStatsRaise
            /\ fs' = fs
  /\ UNCHANGED <<os_has_join, coco_ids, model, cache_model, attrs, pipe,
                 inference_steps, img_ids, coco_args, pc, ran, exc, call>>

Next ==
  \/ CtorInitPipe
  \/ CtorInitScheduler
  \/ CtorInitCacher
  \/ CtorInitCOCOData
  \/ CtorInitCLIPModel
  \/ CtorFinish
  \/ \E N_val \in 0..MaxN, N_test \in 0..MaxN : InitCOCOData(N_val, N_test)
  \/ \E prompt \in Prompts, kwargs \in KwargsSet : Call(prompt, kwargs)
  \/ \E val_test \in Splits, delete_gen_after \in BOOLEAN :
        GetStatsStart(val_test, delete_gen_after)
  \/ GetStatsCLIP
  \/ GetStatsFIDLoop
  \/ GetStatsFID

\* ======================================================================
\* Properties
\* ======================================================================
IsPrefix(s, t) == Len(s) <= Len(t) /\ SubSeq(t, 1, Len(s)) = s

\* C1: constructing SDCompare with model in {"SD", "SDXL"} and cache_model
\* in {"tgate", "deepcache", "both"} runs init_pipe, init_scheduler,
\* init_cacher, init_COCO_data, init_CLIP_model one after another in that
\* order, skips none, and completes with inference_steps = 15; the
\* pipeline exists before the scheduler is swapped and the scheduler is
\* swapped before an adapter wraps the pipeline.
C1_ConstructionCompletes ==
  (model \in SupportedModels /\ cache_model \in DocumentedCacheModels) =>
    /\ pc # "raised"
    /\ exc = "none"
    /\ IsPrefix(ran, InitOrder)
    /\ (pc = "done" => ran = InitOrder /\ inference_steps = 15)
    /\ (pipe.scheduler = "swapped" => pipe.kind # "none")
    /\ (pipe.adapters # {} => pipe.scheduler = "swapped")

\* C2: when cache_model names neither tgate nor deepcache, init_cacher
\* attaches no adapter, and __call__ still returns an image through an
\* entry point the unadapted pipeline has.
C2_AdapterOptional ==
  cache_model \notin DocumentedCacheModels =>
    /\ pipe.adapters = {}
    /\ (call.made => /\ call.result = "image"
                     /\ call.entry = "__call__")

\* C3: once every initialization step has run, every instance attribute
\* get_stats reads has been assigned, and a get_stats activation that has
\* ended has returned the statistics CLIP_mean, CLIP_diff and FID.
C3_GetStatsReturns ==
  /\ (pc = "done" => GetStatsReads \subseteq attrs)
  /\ (gs.out \in {"returned", "raised"} =>
        /\ gs.out = "returned"
        /\ gs.stats = {"CLIP_mean", "CLIP_diff", "FID"})

\* C4: get_stats computes FID on the images its FID loop generated: the
\* generated-image directory named in the FID call is the directory the
\* loop saved into, an activation that got past the FID loop and ended has
\* computed FID while that directory held exactly one image per id of the
\* chosen split, and the images are still there until FID is computed.
C4_FIDOnGeneratedImages ==
  /\ (gs.out = "running" /\ gs.pc = "fid" =>
        /\ FIDPaths[2] = FIDLoopDir
        /\ Range(img_ids[gs.val_test]) \subseteq FilesIn(fs, FIDLoopDir))
  /\ (gs.out \in {"returned", "raised"} /\ gs.pc \in {"fid", "end"} =>
        /\ gs.fid.made
        /\ gs.fid.gen_dir = FIDLoopDir
        /\ gs.fid.gen_files = Range(img_ids[gs.val_test]))

\* C5: for N_val >= 0 and N_test >= 0 with N_val + N_test at most the
\* number of image ids, init_COCO_data leaves exactly N_val ids in
\* img_ids['val'] and exactly N_test ids in img_ids['test'], and the two
\* share no id.
C5_SplitSizes ==
  (/\ coco_args.called
   /\ coco_args.N_val + coco_args.N_test <= Len(coco_ids)) =>
    /\ Len(img_ids.val) = coco_args.N_val
    /\ Cardinality(Range(img_ids.val)) = coco_args.N_val
    /\ Len(img_ids.test) = coco_args.N_test
    /\ Cardinality(Range(img_ids.test)) = coco_args.N_test
    /\ Range(img_ids.val) \cap Range(img_ids.test) = {}

\* C6: for each documented cache_model, __call__ invokes an entry point
\* the pipe has after init_cacher: the plain pipeline call, with no
\* gate_step default, exactly when cache_model is "deepcache"; the tgate
\* entry point, made available by the Tgate loader, with a gate_step when
\* cache_model is "tgate" or "both".  Keyword arguments of the caller
\* replace the defaults (prompt as given, num_inference_steps 15,
\* gate_step 6).
C6_CallByCacheModel ==
  (cache_model \in DocumentedCacheModels /\ call.made) =>
    /\ call.entry \in pipe.entries
    /\ call.result = "image"
    /\ (call.entry = "__call__" <=> cache_model = "deepcache")
    /\ (cache_model \in {"tgate", "both"} =>
          /\ call.entry = "tgate"
          /\ "tgate" \in pipe.adapters
          /\ "gate_step" \in DOMAIN call.params)
    /\ (cache_model = "deepcache" =>
          ("gate_step" \in DOMAIN call.params
             <=> "gate_step" \in DOMAIN call.kwargs))
    /\ \A k \in DOMAIN call.kwargs :
          k \in DOMAIN call.params /\ call.params[k] = call.kwargs[k]
    /\ call.params["prompt"] = call.prompt
    /\ ("num_inference_steps" \notin DOMAIN call.kwargs =>
          call.params["num_inference_steps"] = 15)
    /\ ("gate_step" \in DOMAIN call.params \ DOMAIN call.kwargs =>
          call.params["gate_step"] = 6)

\* Witness of C6: a "both" instance was called with gate_step = 2 and no
\* num_inference_steps, and the tgate entry point produced an image.
C6_Witness ==
  /\ cache_model = "both"
  /\ call.made
  /\ call.entry = "tgate"
  /\ call.result = "image"
  /\ DOMAIN call.kwargs = {"gate_step"}
  /\ call.params["gate_step"] = 2
  /\ call.params["num_inference_steps"] = 15


Spec == Init /\ [][Next]_vars
====
